---- MODULE Spec2Model ----
(***************************************************************************)
(* Model of the constrained shortest-path router of n4ai-demo-server       *)
(* (src/router.py): graph construction from a topology, Dijkstra with tie  *)
(* tracking, path enumeration, waypoint selection, path combination and    *)
(* deduplication, and the route_request entry point.                       *)
(*                                                                         *)
(* Specifications:                                                         *)
(*   Spec            a route_request call                                  *)
(*   SpecRouter      a constrained_all_shortest_paths call                 *)
(*   SpecRepeat      the same call made twice                              *)
(*   SpecConcurrent  two route_request calls interleaved                   *)
(*   SpecDijkstra    a dijkstra call on a weighted directed graph, one     *)
(*                   loop iteration per step; FairDijkstra adds fairness   *)
(*   SpecEnumerate   an enumerate_paths call on a predecessor map          *)
(*   SpecDownload    download_pdf calls of src/manual_processor.py for     *)
(*                   one filename, one write per step                      *)
(***************************************************************************)
EXTENDS Integers, Sequences, FiniteSets, TLC

\* ------------------------------------------------------------------ bounds
NumNodes == 4        \* nodes of a topology: ids 1..NumNodes
MaxConn == 4         \* connections of a topology
MaxWaypoints == 2    \* length of a constraint list

\* ------------------------------------------------------- program constants
Inf == 1000000       \* float('inf')
None == 0            \* Python's None: the default of next(...) for a missing endpoint
Weight == 1          \* weight of every connection

Unset == <<>>        \* a local that has not been assigned, a value not returned

NodeIds == 1..NumNodes
UnknownId == NumNodes + 1      \* an id (node or device) no node carries

\* ------------------------------------------------------- sequence helpers
RECURSIVE Reverse(_)
Reverse(s) == IF s = <<>> THEN <<>> ELSE Append(Reverse(Tail(s)), Head(s))

Range(s) == { s[i] : i \in DOMAIN s }

\* the element of a one-element set; { F(x) : x \in {e} } computes e once
Only(S) == CHOOSE x \in S : TRUE

RECURSIVE SortedSeq(_)
\* the elements of a set of integers in increasing order
SortedSeq(S) ==
  IF S = {} THEN <<>>
  ELSE LET m == CHOOSE x \in S : \A y \in S : x <= y
       IN <<m>> \o SortedSeq(S \ {m})

\* ------------------------------------------------- create_graph_from_topology
\* nodes of the topology in list order
NodeList(topology) == topology.nodes

\* EmptyGraph with a key only for the nodes that some connection names
EmptyGraphOfConnected(topology) ==
  [ n \in { NodeList(topology)[i].id : i \in DOMAIN NodeList(topology) }
           \cap UNION { { topology.connections[k][1], topology.connections[k][2] } :
                        k \in DOMAIN topology.connections } |-> <<>> ]

\* graph = {}; for node in nodes: graph[node["id"]] = []
EmptyGraph(topology) ==
  [ n \in { NodeList(topology)[i].id : i \in DOMAIN NodeList(topology) } |-> <<>> ]

\* AddConnection that gives an unknown id an adjacency list of its own
AddConnectionLenient(graph, connection) ==
  LET source == connection[1]
      target == connection[2]
      g == [ n \in DOMAIN graph \cup { source, target } |->
               IF n \in DOMAIN graph THEN graph[n] ELSE <<>> ]
  IN [raised |-> "none",
      graph |-> [ [g EXCEPT ![source] = Append(@, <<target, Weight>>)]
                    EXCEPT ![target] = Append(@, <<source, Weight>>) ] ]

\* AddConnection that enters a connection at its source only
AddConnectionOneWay(graph, connection) ==
  LET source == connection[1]
      target == connection[2]
  IN IF source \notin DOMAIN graph
       THEN [raised |-> "KeyError", graph |-> Unset]
     ELSE IF target \notin DOMAIN graph
       THEN [raised |-> "KeyError", graph |-> Unset]
     ELSE [raised |-> "none",
           graph |-> [graph EXCEPT ![source] = Append(@, <<target, Weight>>)] ]

\* body of the loop over the connections: graph[source].append((target, 1)),
\* then graph[target].append((source, 1)); an id that is no key raises
\* KeyError, and the graph built so far, a local, is lost with the call
AddConnection(graph, connection) ==
  LET source == connection[1]
      target == connection[2]
  IN IF source \notin DOMAIN graph
       THEN [raised |-> "KeyError", graph |-> Unset]
     ELSE IF target \notin DOMAIN graph
       THEN [raised |-> "KeyError", graph |-> Unset]
     ELSE [raised |-> "none",
           graph |-> [ [graph EXCEPT ![source] = Append(@, <<target, Weight>>)]
                         EXCEPT ![target] = Append(@, <<source, Weight>>) ] ]

RECURSIVE AddConnections(_, _, _)
\* for connection in connections; the graph is returned only when all are in
AddConnections(acc, conns, i) ==
  IF i > Len(conns) \/ acc.raised # "none" THEN acc
  ELSE AddConnections(AddConnection(acc.graph, conns[i]), conns, i + 1)

create_graph_from_topology(topology) ==
  AddConnections([raised |-> "none", graph |-> EmptyGraph(topology)],
                 topology.connections, 1)

\* ------------------------------------------------------ create_reverse_graph
RECURSIVE ReverseEdges(_, _, _, _)
\* inner loop: for v, weight in graph[u]: reverse_graph[v].append((u, weight))
ReverseEdges(rg, u, adj, j) ==
  IF j > Len(adj) THEN rg
  ELSE ReverseEdges([rg EXCEPT ![adj[j][1]] = Append(@, <<u, adj[j][2]>>)],
                    u, adj, j + 1)

RECURSIVE ReverseNodes(_, _, _, _)
\* outer loop: for u in graph (keys in insertion order, the node list's order)
ReverseNodes(rg, graph, us, i) ==
  IF i > Len(us) THEN rg
  ELSE ReverseNodes(ReverseEdges(rg, us[i], graph[us[i]], 1), graph, us, i + 1)

\* create_reverse_graph that returns after the edges of the first node
create_reverse_graphEarlyReturn(graph) ==
  ReverseNodes([n \in DOMAIN graph |-> <<>>], graph,
               SubSeq(SortedSeq(DOMAIN graph), 1, 1), 1)

create_reverse_graph(graph) ==
  ReverseNodes([n \in DOMAIN graph |-> <<>>], graph, SortedSeq(DOMAIN graph), 1)

\* ------------------------------------------------------------------ dijkstra
\* heapq.heappop: the smallest (distance, node) tuple
HeapMin(heap) ==
  CHOOSE e \in heap :
    \A f \in heap : e[1] < f[1] \/ (e[1] = f[1] /\ e[2] <= f[2])

\* state of a run before the loop: dist, preds, dist[source] = 0, heap
DijkstraInit(graph, source) ==
  [ dist   |-> [ n \in DOMAIN graph \cup {source} |->
                   IF n = source THEN 0 ELSE Inf ],
    preds  |-> [ n \in DOMAIN graph |-> <<>> ],
    heap   |-> { <<0, source>> },
    pops   |-> 0,
    raised |-> "none" ]

\* RelaxEdge without the branch for an equally short path
RelaxEdgeNoTies(st, u, v, weight) ==
  LET new_dist == st.dist[u] + weight
  IN IF new_dist < st.dist[v]
       THEN [st EXCEPT !.dist[v] = new_dist,
                       !.preds[v] = <<u>>,
                       !.heap = @ \cup { <<new_dist, v>> }]
     ELSE st

\* RelaxEdge that gives a node a distance once and never lowers it
RelaxEdgeFirstReach(st, u, v, weight) ==
  LET new_dist == st.dist[u] + weight
  IN IF st.dist[v] = Inf
       THEN [st EXCEPT !.dist[v] = new_dist,
                       !.preds[v] = <<u>>,
                       !.heap = @ \cup { <<new_dist, v>> }]
     ELSE IF new_dist = st.dist[v]
       THEN [st EXCEPT !.preds[v] = Append(@, u)]
     ELSE st

\* RelaxEdge that adds u to the predecessors of v on a shorter path too
RelaxEdgeKeepOld(st, u, v, weight) ==
  LET new_dist == st.dist[u] + weight
  IN IF new_dist < st.dist[v]
       THEN [st EXCEPT !.dist[v] = new_dist,
                       !.preds[v] = Append(@, u),
                       !.heap = @ \cup { <<new_dist, v>> }]
     ELSE IF new_dist = st.dist[v]
       THEN [st EXCEPT !.preds[v] = Append(@, u)]
     ELSE st

\* relaxation of one edge (u, v, weight)
RelaxEdge(st, u, v, weight) ==
  LET new_dist == st.dist[u] + weight
  IN IF new_dist < st.dist[v]
       THEN [st EXCEPT !.dist[v] = new_dist,
                       !.preds[v] = <<u>>,
                       !.heap = @ \cup { <<new_dist, v>> }]
     ELSE IF new_dist = st.dist[v]
       THEN [st EXCEPT !.preds[v] = Append(@, u)]
     ELSE st

RECURSIVE RelaxAll(_, _, _, _)
\* for v, weight in graph[u]
RelaxAll(st, u, adj, j) ==
  IF j > Len(adj) THEN st
  ELSE RelaxAll(RelaxEdge(st, u, adj[j][1], adj[j][2]), u, adj, j + 1)

\* IsStale that takes no popped entry for stale
IsStaleNever(st, current_dist, u) == FALSE

\* if current_dist > dist[u]: the popped entry is stale
IsStale(st, current_dist, u) == current_dist > st.dist[u]

\* the rest of an iteration once (current_dist, u) has been popped
Visit(graph, popped, current_dist, u) ==
  IF IsStale(popped, current_dist, u) THEN popped
  ELSE IF u \notin DOMAIN graph THEN [popped EXCEPT !.raised = "KeyError"]
  ELSE RelaxAll(popped, u, graph[u], 1)

\* heappop, counted
Pop(st, e) == [st EXCEPT !.heap = @ \ {e}, !.pops = @ + 1]

\* one iteration of the while loop: pop, skip a stale entry, relax graph[u]
DijkstraStep(graph, st) ==
  Only({ Visit(graph, Pop(st, e), e[1], e[2]) : e \in { HeapMin(st.heap) } })

RECURSIVE DijkstraLoop(_, _)
DijkstraLoop(graph, st) ==
  IF st.heap = {} \/ st.raised # "none" THEN st
  ELSE DijkstraLoop(graph, DijkstraStep(graph, st))

dijkstra(graph, source) == DijkstraLoop(graph, DijkstraInit(graph, source))

\* ----------------------------------------------------------- enumerate_paths
RECURSIVE dfs(_, _, _, _)
RECURSIVE dfsEach(_, _, _, _, _)
\* for p in preds[current_node]: dfs(p, path + [p]); the results in call order
dfsEach(preds, start, ps, k, path) ==
  IF k > Len(ps) THEN <<>>
  ELSE dfs(preds, start, ps[k], Append(path, ps[k]))
         \o dfsEach(preds, start, ps, k + 1, path)

\* dfs that keeps the path of a branch that ends at a node without
\* predecessors
dfsKeepDeadEnds(preds, start, current_node, path) ==
  IF current_node = start THEN << Reverse(path) >>
  ELSE IF current_node \notin DOMAIN preds \/ preds[current_node] = <<>>
    THEN << Reverse(path) >>
  ELSE dfsEach(preds, start, preds[current_node], 1, path)

\* the paths appended to all_paths by dfs(current_node, path), in order
dfs(preds, start, current_node, path) ==
  IF current_node = start THEN << Reverse(path) >>
  ELSE IF current_node \notin DOMAIN preds \/ preds[current_node] = <<>>
    THEN <<>>
  ELSE dfsEach(preds, start, preds[current_node], 1, path)

enumerate_paths(preds, start, end) == dfs(preds, start, end, <<end>>)

\* ------------------------------------------- constrained_all_shortest_paths
\* Case 1 is taken when the constraint list is empty
NoConstraints(constraints) == constraints = <<>>

\* UnconstrainedResult of a search that keeps no distance for unreached nodes
UnconstrainedResultNoEntry(run, src, tgt) ==
  IF run.raised # "none"
    THEN [raised |-> run.raised, dist |-> Unset, preds |-> Unset, res |-> Unset]
  ELSE IF tgt \notin DOMAIN run.dist \/ run.dist[tgt] = Inf
    THEN [raised |-> "KeyError", dist |-> run.dist, preds |-> run.preds,
          res |-> Unset]
  ELSE [raised |-> "none", dist |-> run.dist, preds |-> run.preds,
        res |-> <<run.dist[tgt], enumerate_paths(run.preds, src, tgt)>>]

\* Case 1 after the search run: the target's distance, the enumerated paths
UnconstrainedResult(run, src, tgt) ==
  IF run.raised # "none"
    THEN [raised |-> run.raised, dist |-> Unset, preds |-> Unset, res |-> Unset]
  ELSE IF tgt \notin DOMAIN run.dist
    THEN [raised |-> "KeyError", dist |-> run.dist, preds |-> run.preds,
          res |-> Unset]
  ELSE IF run.dist[tgt] = Inf
    THEN [raised |-> "none", dist |-> run.dist, preds |-> run.preds,
          res |-> <<Inf, <<>> >>]
  ELSE [raised |-> "none", dist |-> run.dist, preds |-> run.preds,
        res |-> <<run.dist[tgt], enumerate_paths(run.preds, src, tgt)>>]

\* SelectStep that keeps the first cost found and never lowers it
SelectStepFirst(acc, c, ds, dt) ==
  IF c \in DOMAIN ds /\ c \in DOMAIN dt
    THEN IF ds[c] < Inf /\ dt[c] < Inf
           THEN LET total_cost == ds[c] + dt[c]
                IN IF acc.best_cost = Inf
                     THEN [best_cost |-> total_cost, best_constraints |-> <<c>>]
                   ELSE IF total_cost = acc.best_cost
                     THEN [acc EXCEPT !.best_constraints = Append(@, c)]
                   ELSE acc
         ELSE acc
  ELSE acc

\* SelectStep without the branch for an equal cost
SelectStepNoTies(acc, c, ds, dt) ==
  IF c \in DOMAIN ds /\ c \in DOMAIN dt
    THEN IF ds[c] < Inf /\ dt[c] < Inf
           THEN LET total_cost == ds[c] + dt[c]
                IN IF total_cost < acc.best_cost
                     THEN [best_cost |-> total_cost, best_constraints |-> <<c>>]
                   ELSE acc
         ELSE acc
  ELSE acc

\* SelectStep whose total is the cost from the source to c alone
SelectStepForwardOnly(acc, c, ds, dt) ==
  IF c \in DOMAIN ds /\ c \in DOMAIN dt
    THEN IF ds[c] < Inf /\ dt[c] < Inf
           THEN LET total_cost == ds[c]
                IN IF total_cost < acc.best_cost
                     THEN [best_cost |-> total_cost, best_constraints |-> <<c>>]
                   ELSE IF total_cost = acc.best_cost
                     THEN [acc EXCEPT !.best_constraints = Append(@, c)]
                   ELSE acc
         ELSE acc
  ELSE acc

\* body of the scan over the constraints for one constraint c
SelectStep(acc, c, ds, dt) ==
  IF c \in DOMAIN ds /\ c \in DOMAIN dt
    THEN IF ds[c] < Inf /\ dt[c] < Inf
           THEN LET total_cost == ds[c] + dt[c]
                IN IF total_cost < acc.best_cost
                     THEN [best_cost |-> total_cost, best_constraints |-> <<c>>]
                   ELSE IF total_cost = acc.best_cost
                     THEN [acc EXCEPT !.best_constraints = Append(@, c)]
                   ELSE acc
         ELSE acc
  ELSE acc

RECURSIVE SelectLoop(_, _, _, _, _)
\* for c in constraints
SelectLoop(acc, cs, i, ds, dt) ==
  IF i > Len(cs) THEN acc
  ELSE SelectLoop(SelectStep(acc, cs[i], ds, dt), cs, i + 1, ds, dt)

SelectBest(cs, ds, dt) ==
  SelectLoop([best_cost |-> Inf, best_constraints |-> <<>>], cs, 1, ds, dt)

\* JoinPaths that keeps the waypoint of both sub-paths
JoinPathsKeepBoth(p1, p2) == p1 \o p2

\* JoinPaths that keeps the waypoint of neither sub-path
JoinPathsDropWaypoint(p1, p2) == SubSeq(p1, 1, Len(p1) - 1) \o Tail(p2)

\* combined = p1 + p2[1:]
JoinPaths(p1, p2) == p1 \o Tail(p2)

RECURSIVE JoinInner(_, _, _)
\* for p2 in paths_c_to_target
JoinInner(p1, p2s, j) ==
  IF j > Len(p2s) THEN <<>>
  ELSE <<JoinPaths(p1, p2s[j])>> \o JoinInner(p1, p2s, j + 1)

RECURSIVE JoinOuter(_, _, _)
\* for p1 in paths_to_c
JoinOuter(p1s, p2s, i) ==
  IF i > Len(p1s) THEN <<>>
  ELSE JoinInner(p1s[i], p2s, 1) \o JoinOuter(p1s, p2s, i + 1)

\* PathsThrough that joins the backward sub-paths without reversing them
PathsThroughNoReverse(c, ps, pt, src, tgt) ==
  JoinOuter(enumerate_paths(ps, src, c), enumerate_paths(pt, tgt, c), 1)

\* the combinations appended for one optimal constraint c
PathsThrough(c, ps, pt, src, tgt) ==
  LET paths_to_c == enumerate_paths(ps, src, c)
      paths_c_to_target_rev == enumerate_paths(pt, tgt, c)
      paths_c_to_target ==
        [ k \in DOMAIN paths_c_to_target_rev |-> Reverse(paths_c_to_target_rev[k]) ]
  IN JoinOuter(paths_to_c, paths_c_to_target, 1)

RECURSIVE CombineAll(_, _, _, _, _, _)
\* for c in best_constraints
CombineAll(bcs, i, ps, pt, src, tgt) ==
  IF i > Len(bcs) THEN <<>>
  ELSE PathsThrough(bcs[i], ps, pt, src, tgt)
         \o CombineAll(bcs, i + 1, ps, pt, src, tgt)

\* DedupStep that never finds p in seen
DedupStepKeepAll(unique_paths, p) == Append(unique_paths, p)

\* body of the duplicate removal for one path p; seen is the set of the
\* paths already in unique_paths
DedupStep(unique_paths, p) ==
  IF p \notin Range(unique_paths) THEN Append(unique_paths, p) ELSE unique_paths

RECURSIVE DedupLoop(_, _, _)
DedupLoop(unique_paths, ps, i) ==
  IF i > Len(ps) THEN unique_paths
  ELSE DedupLoop(DedupStep(unique_paths, ps[i]), ps, i + 1)

RemoveDuplicates(ps) == DedupLoop(<<>>, ps, 1)

\* ------------------------------------------------------------------ inputs
\* device id of node i; UnknownId is the device id of no node
DeviceOf(i) == UnknownId + i

\* the pairs a < b of node ids in lexicographic order
RECURSIVE PairsFrom(_, _)
PairsFrom(a, b) ==
  IF a >= NumNodes THEN <<>>
  ELSE IF b > NumNodes THEN PairsFrom(a + 1, a + 2)
  ELSE << <<a, b>> >> \o PairsFrom(a, b + 1)

AllPairs == PairsFrom(1, 2)

RECURSIVE Pick(_, _, _)
\* the entries of s whose index is in I, in the order of s
Pick(s, I, i) ==
  IF i > Len(s) THEN <<>>
  ELSE (IF i \in I THEN <<s[i]>> ELSE <<>>) \o Pick(s, I, i + 1)

\* number of connections of conns at node n
Degree(conns, n) ==
  Cardinality({ k \in DOMAIN conns : conns[k][1] = n \/ conns[k][2] = n })

\* connection lists between known nodes, each pair at most once; the nodes
\* other than 1 and NumNodes are numbered by non-increasing degree (every
\* graph is one of these up to the names of those nodes)
ConnLists ==
  { conns \in { Pick(AllPairs, I, 1) :
                  I \in { J \in SUBSET DOMAIN AllPairs : Cardinality(J) <= MaxConn } } :
      \A n \in 2..(NumNodes - 2) : Degree(conns, n) >= Degree(conns, n + 1) }

\* device ids that no node carries
UnknownDevices == { UnknownId, DeviceOf(UnknownId) }

\* a last connection that repeats a pair, loops, or names an unknown node
GoodExtras == { <<>>, << <<2, 1>> >>, << <<1, 1>> >> }
BadExtras == { << <<1, UnknownId>> >>, << <<UnknownId, 2>> >> }

\* non-decreasing lists over S of length at most n
SortedLists(S, n) ==
  { l \in UNION { [1..k -> S] : k \in 0..n } :
      \A i \in 1..(Len(l) - 1) : l[i] <= l[i + 1] }

MakeTopology(conns, starts, ends) ==
  [ nodes |-> [ i \in NodeIds |->
                  [ id |-> i, device_id |-> DeviceOf(i),
                    start |-> i \in starts, end |-> i \in ends ] ],
    connections |-> conns ]

\* ------------------------------------------------------------------- state
VARIABLES
  entry,              \* the call being made: "route_request" or "router"
  pc,                 \* position in the call
  topology,           \* network.topology["topology"]
  constraint_devices, \* route_request's constraint_devices
  constraints,        \* constraint_nodes / constraints
  graph, reverse_graph,
  source, target,     \* start_id / end_id
  dist_s, preds_s, dist_t, preds_t,
  best_cost, best_constraints,
  all_valid_paths,
  res,                \* (cost, paths) returned by constrained_all_shortest_paths
  all_paths,          \* the list returned by route_request
  raised,             \* the exception that ended the call, or "none"
  dijkstra_runs,      \* dijkstra calls begun so far
  pops,               \* heap pops made so far, over all dijkstra calls
  dist, preds, heap,  \* dijkstra's locals, in a dijkstra call followed by step
  relaxed,            \* per node, the iterations that relaxed its edges
  skipped,            \* the popped (distance, node) entries skipped as stale
  res_again,          \* (cost, paths) returned by a repeated call
  workers,            \* per request, the locals of a request run beside another
  file,               \* the file at file_path: its existence, size and writer
  download,           \* download_pdf's locals, in the call being made
  calls               \* the download_pdf calls that have returned, in order

vars == << entry, pc, topology, constraint_devices, constraints, graph,
           reverse_graph, source, target, dist_s, preds_s, dist_t, preds_t,
           best_cost, best_constraints, all_valid_paths, res, all_paths,
           raised, dijkstra_runs, pops, dist, preds, heap, relaxed, skipped,
           res_again, workers, file, download, calls >>

\* the locals of a dijkstra call followed step by step
stepVars == << dist, preds, heap, relaxed, skipped >>
\* the file and the locals of download_pdf calls
downloadVars == << file, download, calls >>
\* what a single routing call never touches
besideVars == << stepVars, res_again, workers, downloadVars >>

\* no file at file_path
NoFile == [ exists |-> FALSE, size |-> 0, writer |-> 0, whole |-> FALSE,
            reported |-> FALSE ]
\* no download_pdf call in progress
Idle == [ i |-> 0, left |-> 0, attempts |-> <<>> ]
\* the state of the downloads in a call that downloads nothing
NotDownloading == file = NoFile /\ download = Idle /\ calls = <<>>

requestVars == << entry, topology, constraint_devices >>
searchVars == << dist_s, preds_s, dist_t, preds_t, dijkstra_runs, pops >>
selectVars == << best_cost, best_constraints >>

\* a route_request call on a topology, well-formed or not; a repeated pair
\* and a loop are requested with an empty device list
InitRequest ==
  /\ entry = "route_request"
  /\ pc = "request"
  /\ constraint_devices \in
       { l \in SortedLists({ DeviceOf(i) : i \in NodeIds } \cup UnknownDevices,
                           MaxWaypoints) :
           \A i \in 1..(Len(l) - 1) : l[i] < l[i + 1] }
  /\ \E conns \in ConnLists,
        extra \in { <<>> } \cup BadExtras
                    \cup (IF constraint_devices = <<>> THEN GoodExtras ELSE {}),
        starts \in { {}, {1} }, ends \in { {}, {NumNodes} } :
       topology = MakeTopology(conns \o extra, starts, ends)
  /\ constraints = Unset
  /\ graph = Unset /\ reverse_graph = Unset
  /\ source = None /\ target = None
  /\ dist_s = Unset /\ preds_s = Unset /\ dist_t = Unset /\ preds_t = Unset
  /\ best_cost = Inf /\ best_constraints = Unset
  /\ all_valid_paths = Unset
  /\ res = Unset /\ all_paths = Unset
  /\ raised = "none"
  /\ dijkstra_runs = 0 /\ pops = 0
  /\ dist = Unset /\ preds = Unset /\ heap = {}
  /\ relaxed = Unset /\ skipped = Unset
  /\ res_again = Unset /\ workers = Unset
  /\ NotDownloading

\* a direct constrained_all_shortest_paths call on the graphs of a topology
InitRouter ==
  /\ entry = "router"
  /\ pc = "route"
  /\ source = 1 /\ target \in { 1, NumNodes }
  /\ \E conns \in ConnLists, extra \in GoodExtras :
       topology = MakeTopology(conns \o extra, {source}, {target})
  /\ constraint_devices = <<>>
  /\ constraints \in SortedLists(NodeIds \cup { UnknownId }, MaxWaypoints)
  /\ graph = create_graph_from_topology(topology).graph
  /\ reverse_graph = create_reverse_graph(graph)
  /\ dist_s = Unset /\ preds_s = Unset /\ dist_t = Unset /\ preds_t = Unset
  /\ best_cost = Inf /\ best_constraints = Unset
  /\ all_valid_paths = Unset
  /\ res = Unset /\ all_paths = Unset
  /\ raised = "none"
  /\ dijkstra_runs = 0 /\ pops = 0
  /\ dist = Unset /\ preds = Unset /\ heap = {}
  /\ relaxed = Unset /\ skipped = Unset
  /\ res_again = Unset /\ workers = Unset
  /\ NotDownloading

\* ------------------------------------------------------------ route_request
\* ConstraintNodes with one entry per requested device, None when no node
\* carries the device
ConstraintNodesPerDevice(top, devices) ==
  [ k \in DOMAIN devices |->
      IF \E i \in DOMAIN NodeList(top) : NodeList(top)[i].device_id = devices[k]
        THEN NodeList(top)[CHOOSE i \in DOMAIN NodeList(top) :
                             NodeList(top)[i].device_id = devices[k]].id
      ELSE None ]

\* constraint_nodes = [node["id"] for node in nodes if node["device_id"] in ...]
ConstraintNodes(top, devices) ==
  LET matching == SelectSeq(NodeList(top), LAMBDA node : node.device_id \in Range(devices))
  IN [ k \in DOMAIN matching |-> matching[k].id ]

\* next((node["id"] for node in nodes if node.get(flag)), None)
FirstFlagged(flags) ==
  IF \E k \in DOMAIN flags : flags[k][2]
    THEN flags[CHOOSE k \in DOMAIN flags :
                 flags[k][2] /\ \A j \in 1..(k - 1) : ~flags[j][2]][1]
  ELSE None

StartId(top) ==
  FirstFlagged([ k \in DOMAIN NodeList(top) |->
                   <<NodeList(top)[k].id, NodeList(top)[k].start>> ])
EndId(top) ==
  FirstFlagged([ k \in DOMAIN NodeList(top) |->
                   <<NodeList(top)[k].id, NodeList(top)[k].end>> ])

\* lines 14-36: the constraint nodes, the two graphs, the endpoints
PrepareRequest ==
  /\ pc = "request"
  /\ constraints' = ConstraintNodes(topology, constraint_devices)
  /\ \E built \in { create_graph_from_topology(topology) } :
        /\ raised' = built.raised
        /\ graph' = built.graph
        /\ IF built.raised = "none"
             THEN /\ reverse_graph' = create_reverse_graph(built.graph)
                  /\ source' = StartId(topology)
                  /\ target' = EndId(topology)
                  /\ pc' = "route"
           ELSE /\ UNCHANGED << reverse_graph, source, target >>
                /\ pc' = "raised"
  /\ UNCHANGED << requestVars, searchVars, selectVars, all_valid_paths, res,
                  all_paths, besideVars >>

\* _, all_paths = res; return all_paths
ReturnAllPaths ==
  /\ pc = "returned"
  /\ entry = "route_request"
  /\ all_paths' = res[2]
  /\ pc' = "done"
  /\ UNCHANGED << requestVars, constraints, graph, reverse_graph, source, target,
                  searchVars, selectVars, all_valid_paths, res, raised,
                  besideVars >>

\* ------------------------------------ constrained_all_shortest_paths, called
\* the locals and the outcome of a call that took Case 1, after its search
Case1Done(run, r) ==
  [ raised |-> r.raised, dist_s |-> r.dist, preds_s |-> r.preds,
    dist_t |-> Unset, preds_t |-> Unset,
    best_cost |-> Inf, best_constraints |-> Unset,
    all_valid_paths |-> Unset, res |-> r.res,
    runs |-> 1, pops |-> run.pops ]

Case1(run, src, tgt) ==
  Only({ Case1Done(run, r) : r \in { UnconstrainedResult(run, src, tgt) } })

\* Case 2 after the combination: the duplicate removal and the return
Case2Combined(fwd, bwd, sel, combined) ==
  [ raised |-> "none", dist_s |-> fwd.dist, preds_s |-> fwd.preds,
    dist_t |-> bwd.dist, preds_t |-> bwd.preds,
    best_cost |-> sel.best_cost, best_constraints |-> sel.best_constraints,
    all_valid_paths |-> combined,
    res |-> <<sel.best_cost, RemoveDuplicates(combined)>>,
    runs |-> 2, pops |-> fwd.pops + bwd.pops ]

\* Case 2 after the scan: (inf, []) or the combinations through the best
Case2Selected(fwd, bwd, sel, src, tgt) ==
  IF sel.best_cost = Inf
    THEN [ raised |-> "none", dist_s |-> fwd.dist, preds_s |-> fwd.preds,
           dist_t |-> bwd.dist, preds_t |-> bwd.preds,
           best_cost |-> sel.best_cost,
           best_constraints |-> sel.best_constraints,
           all_valid_paths |-> Unset, res |-> <<Inf, <<>> >>,
           runs |-> 2, pops |-> fwd.pops + bwd.pops ]
  ELSE Only({ Case2Combined(fwd, bwd, sel, combined) :
                combined \in { CombineAll(sel.best_constraints, 1, fwd.preds,
                                           bwd.preds, src, tgt) } })

\* Case 2 after the backward search: the scan, unless the search raised
Case2Searched(fwd, bwd, cs, src, tgt) ==
  IF bwd.raised # "none"
    THEN [ raised |-> bwd.raised, dist_s |-> fwd.dist, preds_s |-> fwd.preds,
           dist_t |-> Unset, preds_t |-> Unset,
           best_cost |-> Inf, best_constraints |-> Unset,
           all_valid_paths |-> Unset, res |-> Unset,
           runs |-> 2, pops |-> fwd.pops + bwd.pops ]
  ELSE Only({ Case2Selected(fwd, bwd, sel, src, tgt) :
                sel \in { SelectBest(cs, fwd.dist, bwd.dist) } })

\* Case 2 after the forward search: the backward search, unless it raised
Case2(fwd, rg, cs, src, tgt) ==
  IF fwd.raised # "none"
    THEN [ raised |-> fwd.raised, dist_s |-> Unset, preds_s |-> Unset,
           dist_t |-> Unset, preds_t |-> Unset,
           best_cost |-> Inf, best_constraints |-> Unset,
           all_valid_paths |-> Unset, res |-> Unset,
           runs |-> 1, pops |-> fwd.pops ]
  ELSE Only({ Case2Searched(fwd, bwd, cs, src, tgt) :
                bwd \in { dijkstra(rg, tgt) } })

\* constrained_all_shortest_paths whose forward search keeps the dist
\* dictionary of the call before (a dictionary created once, not per call)
constrained_all_shortest_pathsKeptDist(g, rg, src, tgt, cs) ==
  Only({ IF NoConstraints(cs) THEN Case1(fwd, src, tgt)
         ELSE Case2(fwd, rg, cs, src, tgt) :
         fwd \in { IF dist_s = Unset THEN dijkstra(g, src)
                   ELSE DijkstraLoop(g, [DijkstraInit(g, src)
                                           EXCEPT !.dist = dist_s]) } })

constrained_all_shortest_paths(g, rg, src, tgt, cs) ==
  IF NoConstraints(cs)
    THEN Only({ Case1(run, src, tgt) : run \in { dijkstra(g, src) } })
  ELSE Only({ Case2(fwd, rg, cs, src, tgt) : fwd \in { dijkstra(g, src) } })

\* what a route_request call on (devices, top) ends with, the routing call
\* being the one of lines 177-269: the exception raised or the list returned
RequestOutcomeOf(built, top, devices, routed) ==
  IF built.raised # "none" THEN [raised |-> built.raised, all_paths |-> Unset]
  ELSE IF routed.raised # "none"
    THEN [raised |-> routed.raised, all_paths |-> Unset]
  ELSE [raised |-> "none", all_paths |-> routed.res[2]]

route_request(devices, top) ==
  Only({ RequestOutcomeOf(built, top, devices,
           IF built.raised # "none" THEN built
           ELSE constrained_all_shortest_paths(
                  built.graph, create_reverse_graph(built.graph),
                  StartId(top), EndId(top), ConstraintNodes(top, devices))) :
         built \in { create_graph_from_topology(top) } })

Route ==
  /\ pc = "route"
  /\ \E out \in { constrained_all_shortest_paths(graph, reverse_graph, source,
                                                 target, constraints) } :
        /\ raised' = out.raised
        /\ dist_s' = out.dist_s /\ preds_s' = out.preds_s
        /\ dist_t' = out.dist_t /\ preds_t' = out.preds_t
        /\ best_cost' = out.best_cost
        /\ best_constraints' = out.best_constraints
        /\ all_valid_paths' = out.all_valid_paths
        /\ res' = out.res
        /\ dijkstra_runs' = dijkstra_runs + out.runs
        /\ pops' = pops + out.pops
        /\ pc' = IF out.raised = "none" THEN "returned" ELSE "raised"
  /\ UNCHANGED << requestVars, constraints, graph, reverse_graph, source, target,
                  all_paths, besideVars >>

Next ==
  \/ PrepareRequest
  \/ Route
  \/ ReturnAllPaths

\* route_request calls
Spec == InitRequest /\ [][Next]_vars

\* direct constrained_all_shortest_paths calls
SpecRouter == InitRouter /\ [][Route]_vars

\* ------------------------------------------------------- a repeated call
\* a second constrained_all_shortest_paths call with the arguments of the
\* first, made after the first has returned; what the first call left behind
\* is still there when it starts
RouteAgain ==
  /\ pc = "returned"
  /\ entry = "router"
  /\ \E out \in { constrained_all_shortest_paths(graph, reverse_graph, source,
                                                 target, constraints) } :
        /\ raised' = out.raised
        /\ dist_s' = out.dist_s /\ preds_s' = out.preds_s
        /\ dist_t' = out.dist_t /\ preds_t' = out.preds_t
        /\ best_cost' = out.best_cost
        /\ best_constraints' = out.best_constraints
        /\ all_valid_paths' = out.all_valid_paths
        /\ res_again' = out.res
        /\ dijkstra_runs' = dijkstra_runs + out.runs
        /\ pops' = pops + out.pops
        /\ pc' = IF out.raised = "none" THEN "returned_again" ELSE "raised"
  /\ UNCHANGED << requestVars, constraints, graph, reverse_graph, source, target,
                  res, all_paths, stepVars, workers, downloadVars >>

NextRepeat ==
  \/ Route
  \/ RouteAgain

\* two constrained_all_shortest_paths calls with the same arguments
SpecRepeat == InitRouter /\ [][NextRepeat]_vars

\* ------------------------------------------- two route_request calls at once
\* the requests that run beside each other
Requests == { 1, 2 }

\* dist, preds and heap are locals of a dijkstra call: the search of request
\* w has a set of its own
RunSlotShared(w) == 1

RunSlot(w) == w

\* the device lists of the two requests
FirstDevices == { <<>>, << DeviceOf(2) >> }
SecondDevices == { << DeviceOf(2) >>, << DeviceOf(2), DeviceOf(3) >> }

\* a search that has not begun
NoSearch == [ dist |-> <<>>, preds |-> <<>>, heap |-> {}, pops |-> 0,
              raised |-> "none" ]

\* the locals of a route_request call that has not begun
NewRequest(devices) ==
  [ pc |-> "request", constraint_devices |-> devices, constraints |-> Unset,
    graph |-> Unset, reverse_graph |-> Unset, source |-> None, target |-> None,
    fwd |-> Unset, res |-> Unset, all_paths |-> Unset, raised |-> "none" ]

\* two route_request calls on one topology snapshot
InitConcurrent ==
  /\ entry = "concurrent"
  /\ pc = "concurrent"
  /\ \E conns \in ConnLists : topology = MakeTopology(conns, {1}, {NumNodes})
  /\ \E d1 \in FirstDevices, d2 \in SecondDevices :
       workers = [ locals |-> [ w \in Requests |->
                                 NewRequest(IF w = 1 THEN d1 ELSE d2) ],
                   runs |-> [ w \in Requests |-> NoSearch ] ]
  /\ constraint_devices = <<>> /\ constraints = Unset
  /\ graph = Unset /\ reverse_graph = Unset
  /\ source = None /\ target = None
  /\ dist_s = Unset /\ preds_s = Unset /\ dist_t = Unset /\ preds_t = Unset
  /\ best_cost = Inf /\ best_constraints = Unset
  /\ all_valid_paths = Unset
  /\ res = Unset /\ all_paths = Unset
  /\ raised = "none"
  /\ dijkstra_runs = 0 /\ pops = 0
  /\ dist = Unset /\ preds = Unset /\ heap = {}
  /\ relaxed = Unset /\ skipped = Unset
  /\ res_again = Unset
  /\ NotDownloading

\* everything but the locals of the two requests
sharedVars ==
  << requestVars, constraints, graph, reverse_graph, source, target, searchVars,
     selectVars, all_valid_paths, res, all_paths, raised, stepVars, res_again,
     pc, downloadVars >>

\* lines 14-38 and 119-124: the constraint nodes, the graphs, the endpoints,
\* then the forward search's dist, preds and heap
Prepared(top, l) ==
  LET built == create_graph_from_topology(top)
  IN IF built.raised # "none"
       THEN [l EXCEPT !.constraints = ConstraintNodes(top, l.constraint_devices),
                      !.raised = built.raised, !.pc = "raised"]
     ELSE [l EXCEPT !.constraints = ConstraintNodes(top, l.constraint_devices),
                    !.graph = built.graph,
                    !.reverse_graph = create_reverse_graph(built.graph),
                    !.source = StartId(top), !.target = EndId(top),
                    !.pc = "forward"]

RequestBegin(w) ==
  /\ workers.locals[w].pc = "request"
  /\ \E l \in { Prepared(topology, workers.locals[w]) } :
        workers' =
          [ locals |-> [workers.locals EXCEPT ![w] = l],
            runs |-> IF l.pc = "forward"
                       THEN [workers.runs EXCEPT
                               ![RunSlot(w)] = DijkstraInit(l.graph, l.source)]
                     ELSE workers.runs ]
  /\ UNCHANGED sharedVars

\* the graph a search of request w runs on
SearchGraph(l) == IF l.pc = "forward" THEN l.graph ELSE l.reverse_graph

\* lines 126-144: one iteration of while heap, in either search
SearchIterate(w) ==
  /\ workers.locals[w].pc \in { "forward", "backward" }
  /\ workers.runs[RunSlot(w)].heap # {}
  /\ \E st \in { DijkstraStep(SearchGraph(workers.locals[w]),
                               workers.runs[RunSlot(w)]) } :
        workers' =
          [ locals |-> IF st.raised = "none" THEN workers.locals
                       ELSE [workers.locals EXCEPT ![w].raised = st.raised,
                                                   ![w].pc = "raised"],
            runs |-> [workers.runs EXCEPT ![RunSlot(w)] = st] ]
  /\ UNCHANGED sharedVars

\* the locals after the forward search has returned: Case 1 ends the routing
\* call, Case 2 goes on to the backward search
ForwardDone(l, run) ==
  IF NoConstraints(l.constraints)
    THEN Only({ [l EXCEPT !.fwd = run, !.res = out.res, !.raised = out.raised,
                          !.pc = IF out.raised = "none" THEN "returned"
                                 ELSE "raised"] :
                out \in { Case1(run, l.source, l.target) } })
  ELSE [l EXCEPT !.fwd = run, !.pc = "backward"]

\* the locals after the backward search has returned: the scan, the
\* combination, the duplicate removal
BackwardDone(l, run) ==
  Only({ [l EXCEPT !.res = out.res, !.raised = out.raised,
                   !.pc = IF out.raised = "none" THEN "returned" ELSE "raised"] :
         out \in { Case2Searched(l.fwd, run, l.constraints, l.source,
                                  l.target) } })

\* line 146 and what follows the call: return dist, preds with the heap empty
SearchEnd(w) ==
  /\ workers.locals[w].pc \in { "forward", "backward" }
  /\ workers.runs[RunSlot(w)].heap = {}
  /\ \E l \in { IF workers.locals[w].pc = "forward"
                    THEN ForwardDone(workers.locals[w], workers.runs[RunSlot(w)])
                  ELSE BackwardDone(workers.locals[w],
                                    workers.runs[RunSlot(w)]) } :
        workers' =
          [ locals |-> [workers.locals EXCEPT ![w] = l],
            runs |-> IF l.pc = "backward"
                       THEN [workers.runs EXCEPT
                               ![RunSlot(w)] =
                                 DijkstraInit(l.reverse_graph, l.target)]
                     ELSE workers.runs ]
  /\ UNCHANGED sharedVars

\* lines 41-43: _, all_paths = res; return all_paths
RequestReturn(w) ==
  /\ workers.locals[w].pc = "returned"
  /\ workers' = [workers EXCEPT !.locals[w].all_paths = workers.locals[w].res[2],
                                !.locals[w].pc = "done"]
  /\ UNCHANGED sharedVars

NextConcurrent ==
  \E w \in Requests :
    \/ RequestBegin(w)
    \/ SearchIterate(w)
    \/ SearchEnd(w)
    \/ RequestReturn(w)

\* two route_request calls interleaved step by step
SpecConcurrent == InitConcurrent /\ [][NextConcurrent]_vars

\* ------------------------------------------------ a dijkstra call, by steps
\* the graphs handed to the call: nodes 1..GraphNodes, at most MaxEdges
\* directed edges, parallel edges and loops included
GraphNodes == 3
MaxEdges == 3

\* edge weights: zero and one, so that an edge can be beaten by a chain of
\* cheaper edges and a chain can tie with an edge
EdgeWeights == { 0, 1 }

GraphNodeIds == 1..GraphNodes

\* the edges (u, v, weight) a graph can have, numbered from 1 in the order of
\* u, then v, then weight
NumEdges == GraphNodes * GraphNodes * Cardinality(EdgeWeights)

EdgeAt ==
  [ i \in 1..NumEdges |->
      << ((i - 1) \div (GraphNodes * Cardinality(EdgeWeights))) + 1,
         (((i - 1) \div Cardinality(EdgeWeights)) % GraphNodes) + 1,
         SortedSeq(EdgeWeights)[((i - 1) % Cardinality(EdgeWeights)) + 1] >> ]

RECURSIVE IncreasingLists(_, _)
\* the strictly increasing lists over 1..n of exactly k entries
IncreasingLists(n, k) ==
  IF k = 0 THEN { <<>> }
  ELSE { Append(q[1], q[2]) :
           q \in { r \in IncreasingLists(n, k - 1) \X (1..n) :
                     r[1] = <<>> \/ r[2] > r[1][Len(r[1])] } }

\* the adjacency-list graph whose edges are those numbered in l
GraphOfEdges(l) ==
  [ u \in GraphNodeIds |->
      Only({ [ k \in DOMAIN out |-> << EdgeAt[out[k]][2], EdgeAt[out[k]][3] >> ] :
             out \in { SelectSeq(l, LAMBDA i : EdgeAt[i][1] = u) } }) ]

\* a dijkstra(graph, source) call on a weighted directed graph; the origin is
\* node 1 (every graph with an origin is one of these up to a renaming of the
\* nodes that keeps the order of the others)
InitDijkstra ==
  /\ entry = "dijkstra"
  /\ pc = "dijkstra"
  /\ \E k \in 0..MaxEdges :
       \E l \in IncreasingLists(NumEdges, k) : graph = GraphOfEdges(l)
  /\ source = 1
  /\ topology = Unset /\ constraint_devices = <<>> /\ constraints = Unset
  /\ reverse_graph = Unset /\ target = None
  /\ dist_s = Unset /\ preds_s = Unset /\ dist_t = Unset /\ preds_t = Unset
  /\ best_cost = Inf /\ best_constraints = Unset
  /\ all_valid_paths = Unset
  /\ res = Unset /\ all_paths = Unset
  /\ raised = "none"
  /\ dijkstra_runs = 0 /\ pops = 0
  /\ dist = Unset /\ preds = Unset /\ heap = {}
  /\ relaxed = Unset /\ skipped = Unset
  /\ res_again = Unset /\ workers = Unset
  /\ NotDownloading

\* what a dijkstra call followed by steps never touches
routingVars ==
  << requestVars, constraints, graph, reverse_graph, source, target, dist_s,
     preds_s, dist_t, preds_t, selectVars, all_valid_paths, res, all_paths,
     res_again, workers, downloadVars >>

\* dijkstra's locals as one value
Locals == [ dist |-> dist, preds |-> preds, heap |-> heap, pops |-> pops,
            raised |-> raised ]

\* lines 119-124: dist, preds, dist[source] = 0, heap = [(0, source)]
DijkstraBegin ==
  /\ pc = "dijkstra"
  /\ \E st \in { DijkstraInit(graph, source) } :
        /\ dist' = st.dist /\ preds' = st.preds /\ heap' = st.heap
  /\ relaxed' = [ n \in DOMAIN graph |-> 0 ]
  /\ skipped' = <<>>
  /\ dijkstra_runs' = dijkstra_runs + 1
  /\ pc' = "loop"
  /\ UNCHANGED << routingVars, raised, pops >>

\* lines 126-144: one iteration of while heap
DijkstraIterate ==
  /\ pc = "loop"
  /\ heap # {}
  /\ \E e \in { HeapMin(heap) } :
        /\ \E st \in { Visit(graph, Pop(Locals, e), e[1], e[2]) } :
              /\ dist' = st.dist /\ preds' = st.preds /\ heap' = st.heap
              /\ pops' = st.pops /\ raised' = st.raised
              /\ pc' = IF st.raised = "none" THEN "loop" ELSE "raised"
        /\ IF IsStale(Locals, e[1], e[2])
             THEN skipped' = Append(skipped, e) /\ relaxed' = relaxed
           ELSE /\ skipped' = skipped
                /\ relaxed' = IF e[2] \in DOMAIN relaxed
                                THEN [relaxed EXCEPT ![e[2]] = @ + 1]
                              ELSE relaxed
  /\ UNCHANGED << routingVars, dijkstra_runs >>

\* line 146: return dist, preds, once the heap is empty
DijkstraReturn ==
  /\ pc = "loop"
  /\ heap = {}
  /\ pc' = "dijkstra_returned"
  /\ UNCHANGED << routingVars, stepVars, raised, dijkstra_runs, pops >>

NextDijkstra ==
  \/ DijkstraBegin
  \/ DijkstraIterate
  \/ DijkstraReturn

\* dijkstra calls, one loop iteration per step
SpecDijkstra == InitDijkstra /\ [][NextDijkstra]_vars

\* the call is not suspended for ever: it runs in one thread to its return
FairDijkstra == SpecDijkstra /\ WF_vars(NextDijkstra)

\* ------------------------------------------------- an enumerate_paths call
\* the predecessor maps handed to the call: nodes 1..PredNodes, each absent
\* from the map or with at most MaxPreds predecessors of a smaller id (no
\* chain of predecessors returns to a node, so the recursion ends)
PredNodes == 4
MaxPreds == 2

\* stands for a node that is no key of the map
Absent == << None >>

\* the predecessor lists node v can have
PredLists(v) == UNION { IncreasingLists(v - 1, k) : k \in 0..MaxPreds }

RECURSIVE PredChoices(_)
\* for each of the nodes 1..n, Absent or a predecessor list
PredChoices(n) ==
  IF n = 0 THEN { <<>> }
  ELSE { Append(q[1], q[2]) :
           q \in PredChoices(n - 1) \X ({ Absent } \cup PredLists(n)) }

\* the map with a key for every node whose choice is a list
PredMap(c) == [ v \in { n \in DOMAIN c : c[n] # Absent } |-> c[v] ]

\* an enumerate_paths(preds, start, end) call; start and end are kept in
\* source and target
InitEnumerate ==
  /\ entry = "enumerate_paths"
  /\ pc = "enumerate"
  /\ \E c \in PredChoices(PredNodes) : preds = PredMap(c)
  /\ source \in 1..PredNodes /\ target \in 1..PredNodes
  /\ topology = Unset /\ constraint_devices = <<>> /\ constraints = Unset
  /\ graph = Unset /\ reverse_graph = Unset
  /\ dist_s = Unset /\ preds_s = Unset /\ dist_t = Unset /\ preds_t = Unset
  /\ best_cost = Inf /\ best_constraints = Unset
  /\ all_valid_paths = Unset
  /\ res = Unset /\ all_paths = Unset
  /\ raised = "none"
  /\ dijkstra_runs = 0 /\ pops = 0
  /\ dist = Unset /\ heap = {}
  /\ relaxed = Unset /\ skipped = Unset
  /\ res_again = Unset /\ workers = Unset
  /\ NotDownloading

\* lines 162-175: all_paths = [], dfs(end, [end]), return all_paths
Enumerate ==
  /\ pc = "enumerate"
  /\ all_paths' = enumerate_paths(preds, source, target)
  /\ pc' = "enumerated"
  /\ UNCHANGED << requestVars, constraints, graph, reverse_graph, source, target,
                  searchVars, selectVars, all_valid_paths, res, raised,
                  besideVars >>

\* enumerate_paths calls
SpecEnumerate == InitEnumerate /\ [][Enumerate]_vars

\* ------------------------------------- download_pdf (manual_processor.py)
\* repeated download_pdf(url, filename) calls for one filename; sizes and
\* response bodies are counted in chunks
MaxCalls == 3        \* download_pdf calls for the filename
MaxChunks == 2       \* chunks of a response body

\* strategies = [self._download_standard, self._download_with_ssl_context]
strategies == << "_download_standard", "_download_with_ssl_context" >>

\* what the download actions never touch
notDownloadVars ==
  << requestVars, constraints, graph, reverse_graph, source, target, searchVars,
     selectVars, all_valid_paths, res, all_paths, raised, stepVars, res_again,
     workers >>

\* before the first download_pdf call: DOWNLOAD_DIR holds no file of the
\* name, or one that was put there earlier
InitDownload ==
  /\ entry = "download_pdf"
  /\ pc = "download_idle"
  /\ \/ file = NoFile
     \/ \E n \in 0..MaxChunks : file = [NoFile EXCEPT !.exists = TRUE, !.size = n]
  /\ download = Idle
  /\ calls = <<>>
  /\ topology = Unset /\ constraint_devices = <<>> /\ constraints = Unset
  /\ graph = Unset /\ reverse_graph = Unset
  /\ source = None /\ target = None
  /\ dist_s = Unset /\ preds_s = Unset /\ dist_t = Unset /\ preds_t = Unset
  /\ best_cost = Inf /\ best_constraints = Unset
  /\ all_valid_paths = Unset
  /\ res = Unset /\ all_paths = Unset
  /\ raised = "none"
  /\ dijkstra_runs = 0 /\ pops = 0
  /\ dist = Unset /\ preds = Unset /\ heap = {}
  /\ relaxed = Unset /\ skipped = Unset
  /\ res_again = Unset /\ workers = Unset

\* the call that returns value after the attempts of d; found is what
\* file_path.exists() gave at line 90
Returns(value, found, d) ==
  [ returned |-> value, found |-> found, attempts |-> d.attempts ]

\* lines 87-98: the call begins; an existing file is returned at once,
\* otherwise the loop over the strategies starts
DownloadBegin ==
  /\ pc = "download_idle"
  /\ Len(calls) < MaxCalls
  /\ IF file.exists
       THEN /\ calls' = Append(calls, Returns("file_path", TRUE, Idle))
            /\ UNCHANGED << pc, download >>
     ELSE /\ pc' = "strategy"
          /\ download' = [Idle EXCEPT !.i = 1]
          /\ UNCHANGED calls
  /\ UNCHANGED << file, notDownloadVars >>

\* lines 100-114 after an attempt that gave no true result, by an exception
\* (except branch, then the pause) or by a false return value: the next
\* strategy, or None after the last
NextStrategyOrNone(d) ==
  IF d.i < Len(strategies)
    THEN /\ pc' = "strategy"
         /\ download' = [d EXCEPT !.i = @ + 1, !.left = 0]
         /\ UNCHANGED calls
  ELSE /\ pc' = "download_idle"
       /\ download' = Idle
       /\ calls' = Append(calls, Returns("None", FALSE, d))

\* the locals once strategy i has been called (line 103)
Attempted(d) == [d EXCEPT !.attempts = Append(@, strategies[d.i])]

\* lines 118-119 and 137-140: the request raises (no connection, an error
\* status) before the file is opened
RequestRaises ==
  /\ pc = "strategy"
  /\ NextStrategyOrNone(Attempted(download))
  /\ UNCHANGED << file, notDownloadVars >>

\* open(file_path, 'wb') at lines 141 and 161: the file is created, or
\* emptied if a strategy before left one
Opened(i) ==
  [ exists |-> TRUE, size |-> 0, writer |-> i, whole |-> FALSE,
    reported |-> FALSE ]

\* lines 118-120, 154-161 and 137-141: a response of n chunks arrives and
\* the file is opened for writing
ResponseOpens ==
  /\ pc = "strategy"
  /\ \E n \in 0..MaxChunks :
       download' = [Attempted(download) EXCEPT !.left = n]
  /\ file' = Opened(download.i)
  /\ pc' = "writing"
  /\ UNCHANGED << calls, notDownloadVars >>

\* lines 163-165 and 143-146: one chunk is read and written
WriteChunk ==
  /\ pc = "writing"
  /\ download.left > 0
  /\ file' = [file EXCEPT !.size = @ + 1]
  /\ download' = [download EXCEPT !.left = @ - 1]
  /\ UNCHANGED << pc, calls, notDownloadVars >>

\* the read of the next chunk raises (the connection breaks); the with
\* block closes the file, which keeps what was written
ChunkRaises ==
  /\ pc = "writing"
  /\ download.left > 0
  /\ NextStrategyOrNone(download)
  /\ UNCHANGED << file, notDownloadVars >>

\* file_path.exists() and file_path.stat().st_size > 0 (lines 149, 172)
SavedSomething(f) == f.exists /\ f.size > 0

\* lines 149, 172 and 104-106: the body is exhausted, the strategy returns
\* whether the file is non-empty, and download_pdf returns the path on True
StrategyReturns ==
  /\ pc = "writing"
  /\ download.left = 0
  /\ file' = [file EXCEPT !.whole = TRUE, !.reported = SavedSomething(file)]
  /\ IF SavedSomething(file)
       THEN /\ calls' = Append(calls, Returns("file_path", FALSE, download))
            /\ download' = Idle
            /\ pc' = "download_idle"
     ELSE NextStrategyOrNone(download)
  /\ UNCHANGED notDownloadVars

NextDownload ==
  \/ DownloadBegin
  \/ RequestRaises
  \/ ResponseOpens
  \/ WriteChunk
  \/ ChunkRaises
  \/ StrategyReturns

\* download_pdf calls for one filename, one after the other
SpecDownload == InitDownload /\ [][NextDownload]_vars

\* ------------------------------------------------ reference notions (graphs)
Last(p) == p[Len(p)]

\* the nodes an edge of g leads to from u
Succ(g, u) == IF u \in DOMAIN g THEN { g[u][k][1] : k \in DOMAIN g[u] } ELSE {}

\* the walks of W, each extended by one edge of g in every possible way
Extend(g, W) ==
  UNION { { Append(w, v) : v \in Succ(g, Last(w)) } : w \in W }

RECURSIVE WalksFrom(_, _, _)
\* the node sequences that start at src and follow k edges of g
WalksFrom(g, src, k) ==
  IF k = 0 THEN { <<src>> } ELSE Extend(g, WalksFrom(g, src, k - 1))

\* the routes of cost exactly k (every edge costs Weight) from src to tgt
RoutesOfCost(g, src, tgt, k) ==
  IF k % Weight # 0 THEN {}
  ELSE { w \in WalksFrom(g, src, k \div Weight) : Last(w) = tgt }

RECURSIVE Levels(_, _, _, _, _)
\* breadth-first search: the cost at which tgt is first reached from the
\* nodes of frontier, which are at cost d; Inf when it never is
Levels(g, frontier, seen, d, tgt) ==
  IF tgt \in frontier THEN d
  ELSE IF frontier = {} THEN Inf
  ELSE LET next == (UNION { Succ(g, u) : u \in frontier }) \ seen
       IN Levels(g, next, seen \cup next, d + Weight, tgt)

\* the least cost of a route from src to tgt, Inf when there is none
TrueDist(g, src, tgt) == Levels(g, {src}, {src}, 0, tgt)

Through(p, cs) == \E i \in DOMAIN p : p[i] \in Range(cs)

IsSimple(p) == \A i, j \in DOMAIN p : i # j => p[i] # p[j]

Returned == pc = "returned" /\ raised = "none"

\* ---------------------------------------------------------------- claims
\* C1: with no waypoints and a reachable destination, the call returns the
\* true shortest distance and, as a set, exactly the source-to-destination
\* paths of that cost
C1_UnconstrainedAllShortest ==
  (pc # "route" /\ constraints = <<>>)
    => \E d \in { TrueDist(graph, source, target) } :
         d < Inf => /\ Returned
                    /\ res[1] = d
                    /\ Range(res[2]) = RoutesOfCost(graph, source, target, d)

\* C1 witness: the diamond, two tied paths of cost 2 returned
C1_Witness ==
  /\ Returned /\ constraints = <<>>
  /\ topology.connections = << <<1, 2>>, <<1, 3>>, <<2, 4>>, <<3, 4>> >>
  /\ target = NumNodes
  /\ res = << 2, << <<1, 2, 4>>, <<1, 3, 4>> >> >>

\* the waypoints that have a finite distance in both searches
Qualifying ==
  { c \in Range(constraints) :
      /\ c \in DOMAIN dist_s /\ c \in DOMAIN dist_t
      /\ dist_s[c] < Inf /\ dist_t[c] < Inf }

\* C2: with waypoints, bestCost is the minimum of distForward[c] +
\* distBackward[c] over the waypoints finite on both sides, and +infinity
\* exactly when there is no such waypoint
C2_BestCostIsMinimum ==
  (Returned /\ constraints # <<>>)
    => /\ res[1] = best_cost
       /\ (best_cost = Inf) <=> (Qualifying = {})
       /\ Qualifying # {} =>
            /\ \E c \in Qualifying : best_cost = dist_s[c] + dist_t[c]
            /\ \A c \in Qualifying : best_cost <= dist_s[c] + dist_t[c]

\* C2 witness: two qualifying waypoints of different cost, the later one
\* scanned being the cheaper
C2_Witness ==
  /\ Returned /\ Len(constraints) = 2
  /\ Range(constraints) \subseteq Qualifying
  /\ dist_s[constraints[1]] + dist_t[constraints[1]]
       > dist_s[constraints[2]] + dist_t[constraints[2]]
  /\ best_cost = dist_s[constraints[2]] + dist_t[constraints[2]]

\* the routes of cost k from source to target through some waypoint of cs
RoutesThrough(cs, k) ==
  { w \in RoutesOfCost(graph, source, target, k) : Through(w, cs) }

RECURSIVE NoRouteBelow(_, _, _, _)
\* no walk of W, nor any extension of one, is a route to target through a
\* waypoint of cs of cost below best; the walks of W cost k
NoRouteBelow(cs, W, k, best) ==
  IF k >= best THEN TRUE
  ELSE /\ \A w \in W : ~(Last(w) = target /\ Through(w, cs))
       /\ NoRouteBelow(cs, Extend(graph, W), k + Weight, best)

\* C3: with waypoints and a finite bestCost, the returned sequences are, as a
\* set, exactly the routes from source to target along edges through at least
\* one waypoint that cost bestCost, and no such route costs less
C3_ConstrainedRoutesExact ==
  (Returned /\ constraints # <<>> /\ res[1] < Inf)
    => /\ Range(res[2]) = RoutesThrough(constraints, res[1])
       /\ NoRouteBelow(constraints, { <<source>> }, 0, res[1])

\* C3 witness: the diamond with waypoint 3 returns only the path through 3
C3_Witness ==
  /\ Returned /\ constraints = <<3>> /\ target = NumNodes
  /\ topology.connections = << <<1, 2>>, <<1, 3>>, <<2, 4>>, <<3, 4>> >>
  /\ res = << 2, << <<1, 3, 4>> >> >>

\* C4 as stated: every returned path, with or without waypoints, repeats no
\* node
C4_AllPathsSimple ==
  Returned => \A k \in DOMAIN res[2] : IsSimple(res[2][k])

\* C4 amended: without waypoints every returned path repeats no node; with
\* waypoints every returned path splits at an occurrence of a selected
\* waypoint into a source-to-waypoint part and a waypoint-to-target part that
\* each repeat no node
C4_SimpleHalves ==
  Returned =>
    \A k \in DOMAIN res[2] :
      LET p == res[2][k]
      IN IF constraints = <<>> THEN IsSimple(p)
         ELSE \E i \in DOMAIN p :
                /\ p[i] \in Range(best_constraints)
                /\ IsSimple(SubSeq(p, 1, i))
                /\ IsSimple(SubSeq(p, i, Len(p)))

\* C4 witness: a returned path that visits the target, goes on to the
\* waypoint and comes back
C4_Witness ==
  /\ Returned /\ constraints # <<>>
  /\ \E k \in DOMAIN res[2] :
       /\ ~IsSimple(res[2][k])
       /\ Len(res[2][k]) = 4
       /\ res[2][k][2] = target /\ res[2][k][4] = target
       /\ res[2][k][3] \in Range(constraints)

\* position of the first occurrence of x in s
FirstIndex(s, x) == CHOOSE i \in DOMAIN s : s[i] = x /\ \A j \in 1..(i - 1) : s[j] # x

\* C5: with waypoints the returned list holds no sequence twice; it holds
\* every combined sequence once, in the order of the first occurrences
C5_NoDuplicatePaths ==
  (Returned /\ constraints # <<>> /\ res[1] < Inf)
    => /\ \A i, j \in DOMAIN res[2] : i # j => res[2][i] # res[2][j]
       /\ Range(res[2]) = Range(all_valid_paths)
       /\ \A i, j \in DOMAIN res[2] :
            i < j => FirstIndex(all_valid_paths, res[2][i])
                       < FirstIndex(all_valid_paths, res[2][j])

\* C5 witness: one sequence combined through two different selected
\* waypoints, returned once
C5_Witness ==
  /\ Returned /\ constraints # <<>> /\ res[1] < Inf
  /\ Len(best_constraints) = 2 /\ best_constraints[1] # best_constraints[2]
  /\ \E i, j \in DOMAIN all_valid_paths :
       /\ i < j /\ all_valid_paths[i] = all_valid_paths[j]
       /\ Through(all_valid_paths[i], <<best_constraints[1]>>)
       /\ Through(all_valid_paths[i], <<best_constraints[2]>>)
  /\ Len(res[2]) < Len(all_valid_paths)

\* cost of going through waypoint c, for a qualifying c
CostVia(c) == dist_s[c] + dist_t[c]

\* C6: every waypoint of minimal cost is selected, in scan order, none of a
\* larger cost is, and the result holds the cheapest routes through each
\* selected waypoint
C6_AllTiedWaypointsSelected ==
  (Returned /\ constraints # <<>>)
    => /\ best_constraints =
            SelectSeq(constraints,
                      LAMBDA c : c \in Qualifying
                                   /\ \A d \in Qualifying : CostVia(c) <= CostVia(d))
       /\ \A c \in Range(best_constraints) :
            \E routes \in { RoutesThrough(<<c>>, best_cost) } :
              routes # {} /\ routes \subseteq Range(res[2])

\* C6 witness: two different waypoints tie, a path through each is returned
\* that avoids the other
C6_Witness ==
  /\ Returned /\ Len(best_constraints) = 2
  /\ best_constraints[1] # best_constraints[2]
  /\ \E i, j \in DOMAIN res[2] :
       /\ Through(res[2][i], <<best_constraints[1]>>)
       /\ ~Through(res[2][i], <<best_constraints[2]>>)
       /\ Through(res[2][j], <<best_constraints[2]>>)
       /\ ~Through(res[2][j], <<best_constraints[1]>>)

\* no route at all: the target unreachable, or no waypoint reachable from
\* both the source and the target
NoRoute ==
  IF constraints = <<>> THEN TrueDist(graph, source, target) = Inf
  ELSE \A c \in Range(constraints) :
         \/ c \notin DOMAIN graph
         \/ TrueDist(graph, source, c) = Inf
         \/ TrueDist(graph, target, c) = Inf

\* C7: when there is no route the call returns (+infinity, []) and raises no
\* error, with and without waypoints
C7_NoRouteIsNotAnError ==
  (pc # "route" /\ NoRoute)
    => /\ pc = "returned" /\ raised = "none"
       /\ res = <<Inf, <<>> >>

\* C7 witness, without waypoints: the target has no edges
C7_Witness ==
  /\ Returned /\ constraints = <<>> /\ target # source
  /\ graph[target] = <<>> /\ graph[source] # <<>>
  /\ res = <<Inf, <<>> >>

\* C7 witness, with waypoints: a waypoint reachable from the source only
C7_WitnessWaypoints ==
  /\ Returned /\ constraints # <<>>
  /\ \E c \in Range(constraints) : c \in DOMAIN graph /\ dist_s[c] < Inf
  /\ dist_s[target] = Inf
  /\ res = <<Inf, <<>> >>

\* ------------------------------------------------------ claims on requests
Finished == pc \in { "done", "raised" }

\* no node of the topology carries a requested device
NoDeviceMatches ==
  \A k \in DOMAIN constraint_devices :
    \A i \in DOMAIN topology.nodes :
      topology.nodes[i].device_id # constraint_devices[k]

\* C8: a request whose constraint devices match no node ends as the request
\* with an empty constraint list on the same topology does, with the same
\* paths returned
C8_UnmatchedDevicesFallBack ==
  (Finished /\ constraint_devices # <<>> /\ NoDeviceMatches)
    => /\ raised = route_request(<<>>, topology).raised
       /\ all_paths = route_request(<<>>, topology).all_paths

\* C8 witness: two unknown devices requested on the diamond, both shortest
\* paths returned
C8_Witness ==
  /\ pc = "done" /\ Len(constraint_devices) = 2 /\ NoDeviceMatches
  /\ topology.connections = << <<1, 2>>, <<1, 3>>, <<2, 4>>, <<3, 4>> >>
  /\ all_paths = << <<1, 2, 4>>, <<1, 3, 4>> >>

\* some connection names an id that no node has
BadConnection ==
  \E k \in DOMAIN topology.connections :
    \E e \in 1..2 :
      \A i \in DOMAIN topology.nodes :
        topology.nodes[i].id # topology.connections[k][e]

\* no graph, no reverse graph and no result came out of the request
NothingReturned ==
  /\ graph = Unset /\ reverse_graph = Unset
  /\ res = Unset /\ all_paths = Unset

MissingEndpoint == StartId(topology) = None \/ EndId(topology) = None

\* C10 as stated: a request on a topology without a start or without an end
\* node fails with ConfigurationError before any search step
C10_ConfigurationErrorBeforeSearch ==
  (pc \notin { "request", "route" } /\ ~BadConnection /\ MissingEndpoint)
    => /\ pc = "raised" /\ raised = "ConfigurationError"
       /\ dijkstra_runs = 0 /\ pops = 0

\* C10, what the request does instead: it fails with KeyError after at least
\* one heap pop of a search
C10_ObservedKeyErrorInSearch ==
  (pc \notin { "request", "route" } /\ ~BadConnection /\ MissingEndpoint)
    => /\ pc = "raised" /\ raised = "KeyError"
       /\ dijkstra_runs >= 1 /\ pops >= 1

\* ----------------------------------- reference notions (weighted graphs)
\* the edges (u, v, weight) of an adjacency-list graph
EdgesOf(g) ==
  UNION { { <<u, g[u][k][1], g[u][k][2]>> : k \in DOMAIN g[u] } : u \in DOMAIN g }

Least(S) == CHOOSE x \in S : \A y \in S : x <= y

\* the costs D, each lowered to the cheapest way of reaching the node by one
\* more edge from a node of finite cost
Shorten(g, D) ==
  [ v \in DOMAIN g |->
      Least({ D[v] } \cup
            { D[e[1]] + e[3] :
                e \in { f \in EdgesOf(g) : f[2] = v /\ D[f[1]] < Inf } }) ]

RECURSIVE Rounds(_, _, _)
Rounds(g, D, k) == IF k = 0 THEN D ELSE Rounds(g, Shorten(g, D), k - 1)

\* the minimum cost of a path from src to each node, Inf where there is none:
\* a cheapest path has fewer edges than the graph has nodes
TrueCosts(g, src) ==
  Rounds(g, [ v \in DOMAIN g |-> IF v = src THEN 0 ELSE Inf ],
         Cardinality(DOMAIN g))

DijkstraReturned == pc = "dijkstra_returned"

\* --------------------------------------------------- claims on a dijkstra call
\* C11: when dijkstra finishes, dist[origin] = 0, dist[v] is the true minimum
\* path cost for every reachable v, and every unreachable node has dist =
\* +infinity and an empty predecessor list
C11_DijkstraDistances ==
  DijkstraReturned =>
    \E D \in { TrueCosts(graph, source) } :
      /\ dist[source] = 0
      /\ \A v \in DOMAIN graph : dist[v] = D[v]
      /\ \A v \in DOMAIN graph : D[v] = Inf => preds[v] = <<>>

\* C11 witness: a node with an edge from the origin that is reached more
\* cheaply over another node
C11_Witness ==
  /\ DijkstraReturned
  /\ \E v \in DOMAIN graph :
       /\ v # source
       /\ \E k \in DOMAIN graph[source] : graph[source][k][1] = v
       /\ \A k \in DOMAIN graph[source] :
            graph[source][k][1] = v => dist[v] < graph[source][k][2]

\* the nodes u with an edge (u, v, w) such that D[u] + w = D[v]
TightPreds(g, D, v) ==
  { e[1] : e \in { f \in EdgesOf(g) : f[2] = v /\ D[f[1]] + f[3] = D[v] } }

\* C12: when dijkstra finishes, the predecessors recorded for a reachable node
\* v other than the origin are exactly the nodes u with an edge (u, v, w) and
\* dist[u] + w = dist[v]
C12_PredecessorsExact ==
  DijkstraReturned =>
    \A v \in DOMAIN graph :
      (v # source /\ dist[v] < Inf) => Range(preds[v]) = TightPreds(graph, dist, v)

\* C12 witness: a node whose distance was lowered after a predecessor had been
\* recorded for it (its earlier heap entry was popped stale), the earlier
\* predecessor no longer recorded
C12_Witness ==
  /\ DijkstraReturned
  /\ \E k \in DOMAIN skipped :
       \E d \in { skipped[k][1] }, v \in { skipped[k][2] } :
         /\ v # source /\ d > dist[v] /\ preds[v] # <<>>
         /\ \E e \in EdgesOf(graph) :
              /\ e[2] = v /\ dist[e[1]] + e[3] = d
              /\ e[1] \notin Range(preds[v])

\* a step of the loop pushes an entry (d, v) only when d is strictly below the
\* tentative distance v had, and pushes every distance it lowers; a popped
\* entry whose distance is above the node's current best changes nothing but
\* the heap
LoopStepDiscipline ==
  (pc = "loop" /\ heap # {}) =>
    /\ \A e \in heap' \ heap : e[1] < dist[e[2]] /\ dist'[e[2]] <= e[1]
    /\ \A v \in DOMAIN dist : dist'[v] < dist[v] => <<dist'[v], v>> \in heap'
    /\ \A v \in DOMAIN dist : dist'[v] <= dist[v]
    /\ \A e \in heap \ heap' :
         e[1] > dist[e[2]] =>
           /\ dist' = dist /\ preds' = preds /\ relaxed' = relaxed
           /\ heap' = heap \ {e}

\* C20: the dijkstra loop terminates with an empty queue; a node is pushed
\* only when its tentative distance strictly decreases, a stale popped entry
\* is skipped without relaxing any edge, and each node has its outgoing edges
\* relaxed at most once
C20_TerminatesRelaxingOnce ==
  /\ <>(DijkstraReturned /\ heap = {})
  /\ [][LoopStepDiscipline]_vars
  /\ [](pc \in { "loop", "dijkstra_returned" } =>
         \A n \in DOMAIN relaxed : relaxed[n] <= 1)

\* C20 witness: a call that has returned with the heap empty after skipping
\* a stale entry, every reached node relaxed once
C20_Witness ==
  /\ DijkstraReturned /\ heap = {}
  /\ skipped # <<>>
  /\ \A n \in DOMAIN graph : relaxed[n] = IF dist[n] < Inf THEN 1 ELSE 0

\* ------------------------------------------------ claims on routing calls, II
\* C13 as stated: after a search no node occurs twice among the predecessors
\* of a node, and the unconstrained route (the list enumerate_paths returns)
\* holds no path twice, also when a pair of nodes is connected more than once
C13_PredecessorsAreSets ==
  Returned =>
    /\ \A v \in DOMAIN preds_s : IsSimple(preds_s[v])
    /\ constraints = <<>> => IsSimple(res[2])

\* C13, what the call does instead: a pair connected twice makes the one node
\* a predecessor of the other twice, and each path over it is returned twice
C13_ObservedDuplicates ==
  (Returned /\ constraints = <<>> /\ target = NumNodes
     /\ topology.connections = << <<1, 2>>, <<2, NumNodes>>, <<2, 1>> >>)
    => /\ preds_s[2] = <<1, 1>>
       /\ res[2] = << <<1, 2, NumNodes>>, <<1, 2, NumNodes>> >>

\* --------------------------------------------- claims on enumerate_paths calls
Enumerated == pc = "enumerated"

\* some branch followed backwards from end reaches a node other than start
\* that has no predecessors or is no key of preds
DeadEndBranch ==
  \E u \in Range(IF target \in DOMAIN preds THEN preds[target] ELSE <<>>) :
    /\ u # source /\ target # source
    /\ (u \notin DOMAIN preds \/ preds[u] = <<>>)

\* C14: every path enumerate_paths returns starts at the origin, ends at the
\* destination and has each node among the predecessors of the next one; the
\* call raises no error, whatever dead ends its branches reach
C14_PathsFollowPredecessors ==
  Enumerated =>
    /\ raised = "none"
    /\ \A k \in DOMAIN all_paths :
         \E p \in { all_paths[k] } :
           /\ p # <<>> /\ p[1] = source /\ p[Len(p)] = target
           /\ \A i \in 1..(Len(p) - 1) :
                p[i + 1] \in DOMAIN preds /\ p[i] \in Range(preds[p[i + 1]])

\* C14 witness: of two branches one reaches the origin and is returned, the
\* other ends at a node without predecessors and is not
C14_Witness ==
  /\ Enumerated /\ DeadEndBranch
  /\ Len(preds[target]) = 2 /\ Len(all_paths) = 1 /\ Len(all_paths[1]) > 2

\* C17: the distance to B that the forward search from A finds on the graph
\* equals the distance to A that the backward search from B finds on the
\* reverse graph, both finite or both +infinity; A is the source and B the
\* target of a call with waypoints, the one that runs both searches
C17_ForwardEqualsBackward ==
  (Returned /\ constraints # <<>>)
    => /\ dist_s[target] = dist_t[source]
       /\ dist_s[target] = TrueDist(graph, source, target)

\* C17 witness: source and target three connections apart, found so by both
\* searches
C17_Witness ==
  /\ Returned /\ constraints # <<>> /\ target = NumNodes
  /\ dist_s[target] = 3 * Weight /\ dist_t[source] = 3 * Weight
  /\ reverse_graph # graph

GraphsBuilt == pc \in { "route", "returned", "done" } /\ entry = "route_request"

\* the ids of the node list
TopologyIds == { topology.nodes[i].id : i \in DOMAIN topology.nodes }

\* the connections of the topology that name node n
ConnectionsAt(n) ==
  { k \in DOMAIN topology.connections :
      topology.connections[k][1] = n \/ topology.connections[k][2] = n }

\* C15: the graph built from a topology and the reverse graph derived from it
\* each have an entry for every node id of the node list, an empty adjacency
\* list for a node that occurs in no connection
C15_EntryForEveryNode ==
  GraphsBuilt =>
    /\ DOMAIN graph = TopologyIds
    /\ DOMAIN reverse_graph = TopologyIds
    /\ \A n \in TopologyIds :
         ConnectionsAt(n) = {} => graph[n] = <<>> /\ reverse_graph[n] = <<>>

\* C15 witness: graphs built from a topology in which the end node occurs in
\* no connection while other nodes are connected
C15_Witness ==
  /\ GraphsBuilt /\ pc = "done"
  /\ topology.connections # <<>>
  /\ target = NumNodes /\ ConnectionsAt(target) = {}
  /\ graph[target] = <<>> /\ reverse_graph[target] = <<>>

\* how often x occurs in the list s
Occurrences(s, x) == Cardinality({ k \in DOMAIN s : s[k] = x })

\* the connections from a to b, in this direction
ConnectionsFromTo(a, b) ==
  Cardinality({ k \in DOMAIN topology.connections :
                  topology.connections[k] = <<a, b>> })

\* C16: the built graph is symmetric and holds exactly the connections, each
\* as (B, w) at A and (A, w) at B with the same weight w, and for every node
\* the reverse graph has the same collection of entries as the graph
C16_SymmetricExactGraph ==
  GraphsBuilt =>
    \A a \in TopologyIds :
      /\ \A k \in DOMAIN graph[a] :
           graph[a][k][1] \in TopologyIds /\ graph[a][k][2] = Weight
      /\ \A b \in TopologyIds :
           /\ Occurrences(graph[a], <<b, Weight>>)
                = ConnectionsFromTo(a, b) + ConnectionsFromTo(b, a)
           /\ Occurrences(graph[a], <<b, Weight>>)
                = Occurrences(graph[b], <<a, Weight>>)
           /\ Occurrences(reverse_graph[a], <<b, Weight>>)
                = Occurrences(graph[a], <<b, Weight>>)
      /\ Len(reverse_graph[a]) = Len(graph[a])

\* C16 witness: a pair connected twice, once in each direction; the reverse
\* graph lists the entries of a node in another order than the graph
C16_Witness ==
  /\ GraphsBuilt
  /\ ConnectionsFromTo(1, 2) = 1 /\ ConnectionsFromTo(2, 1) = 1
  /\ Occurrences(graph[1], <<2, Weight>>) = 2
  /\ Occurrences(graph[2], <<1, Weight>>) = 2
  /\ reverse_graph[1] # graph[1]

\* ------------------------------------------------ claims on concurrent calls
\* what request w ends with
OutcomeOf(w) ==
  [ raised |-> workers.locals[w].raised,
    all_paths |-> workers.locals[w].all_paths ]

\* C19: when two routing computations over one topology snapshot are
\* interleaved step by step, neither changes the topology, the graph or the
\* reverse graph, and each returns exactly what it returns when run alone
C19_NoInterference ==
  /\ [][topology' = topology]_vars
  /\ [](\A w \in Requests :
         \E l \in { workers.locals[w] } :
           /\ l.pc \in { "forward", "backward", "returned", "done" } =>
                \E g \in { create_graph_from_topology(topology).graph } :
                  l.graph = g /\ l.reverse_graph = create_reverse_graph(g)
           /\ l.pc \in { "done", "raised" } =>
                OutcomeOf(w) = route_request(l.constraint_devices, topology))

\* C19 witness: both requests done, with different waypoints and different
\* paths returned
C19_Witness ==
  /\ entry = "concurrent"
  /\ workers.locals[1].pc = "done" /\ workers.locals[2].pc = "done"
  /\ workers.locals[1].constraints # workers.locals[2].constraints
  /\ workers.locals[1].all_paths # workers.locals[2].all_paths
  /\ workers.locals[1].all_paths # <<>> /\ workers.locals[2].all_paths # <<>>

\* ------------------------------------------------------------------ C21
\* what the call of the state returns when it is made with no waypoints
Unconstrained ==
  constrained_all_shortest_paths(graph, reverse_graph, source, target, <<>>)

\* C21: on the same graph, source and destination, the cost returned with a
\* non-empty waypoint list is never smaller than the cost returned with no
\* waypoints, and when the two costs are equal every path of the
\* constrained result is a path of the unconstrained result.
C21_WaypointsNeverCheaper ==
  (Returned /\ entry = "router" /\ constraints # <<>>) =>
    \E un \in { Unconstrained } :
      /\ un.raised = "none"
      /\ res[1] >= un.res[1]
      /\ res[1] = un.res[1] => Range(res[2]) \subseteq Range(un.res[2])

\* a call with waypoints that returns the unconstrained cost, finite, with
\* some but not all of the unconstrained paths
C21_Witness ==
  /\ Returned /\ entry = "router" /\ constraints # <<>>
  /\ \E un \in { Unconstrained } :
       /\ res[1] = un.res[1] /\ res[1] < Inf
       /\ res[2] # <<>>
       /\ Range(res[2]) # Range(un.res[2])

\* a call with waypoints that returns a finite cost above the unconstrained
C21_WitnessDetour ==
  /\ Returned /\ entry = "router" /\ constraints # <<>>
  /\ \E un \in { Unconstrained } : un.res[1] < res[1] /\ res[1] < Inf

\* ------------------------------------------------------------------ C22
\* the waypoint list is the source alone, or the destination alone
EndpointWaypoint == constraints \in { << source >>, << target >> }

\* C22: when the waypoint list is exactly the source node, or exactly the
\* destination node, the call returns the cost and the set of paths of the
\* unconstrained call on the same graph: the one-node sub-path on the
\* waypoint's side is joined with no endpoint repeated and none dropped.
C22_EndpointWaypointIsUnconstrained ==
  (Returned /\ entry = "router" /\ EndpointWaypoint) =>
    \E un \in { Unconstrained } :
      /\ un.raised = "none"
      /\ res[1] = un.res[1]
      /\ Range(res[2]) = Range(un.res[2])
      /\ \A i \in DOMAIN res[2] :
           /\ Head(res[2][i]) = source /\ Last(res[2][i]) = target
           /\ Len(res[2][i]) = res[1] + 1

\* the source as the only waypoint, the destination another node reached by
\* more than one shortest path
C22_Witness ==
  /\ Returned /\ entry = "router"
  /\ constraints = << source >> /\ source # target
  /\ res[1] < Inf /\ Len(res[2]) > 1
  /\ preds_s[source] = <<>>

\* the destination as the only waypoint, reached by more than one path
C22_WitnessDestination ==
  /\ Returned /\ entry = "router"
  /\ constraints = << target >> /\ source # target
  /\ res[1] < Inf /\ Len(res[2]) > 1

\* source and destination the same node, given as the only waypoint
C22_WitnessSameNode ==
  /\ Returned /\ entry = "router"
  /\ constraints = << source >> /\ source = target
  /\ res = << 0, << << source >> >> >>

\* ------------------------------------------------------------------ C23
\* between two download_pdf calls
BetweenDownloads == entry = "download_pdf" /\ pc = "download_idle"

\* the file was there before the first attempt, or a strategy wrote the
\* whole body into it and returned True
DownloadedOrOlder(f) == f.writer = 0 \/ (f.whole /\ f.reported)

\* the attempts of a call that downloads: the standard strategy first, the
\* SSL-context strategy second
AttemptsInOrder(a) ==
  a # <<>> /\ Len(a) <= Len(strategies) /\ a = SubSeq(strategies, 1, Len(a))

\* C23: over any sequence of download_pdf calls for one filename, a path is
\* returned only if the file at that path was completely written by a
\* strategy that reported success or existed before the first attempt;
\* after a call in which every strategy failed, a failure partway through
\* writing included, the next call does not report the file as already
\* downloaded and attempts the download again, standard strategy first and
\* SSL-context strategy second.
C23_PathOnlyForWholeFile ==
  BetweenDownloads =>
    /\ (calls # <<>> /\ calls[Len(calls)].returned = "file_path")
         => DownloadedOrOlder(file)
    /\ \A k \in 1..(Len(calls) - 1) :
         calls[k].returned = "None" =>
           /\ ~calls[k + 1].found
           /\ AttemptsInOrder(calls[k + 1].attempts)

\* what the code does: a call made when no file exists tries the standard
\* strategy, then the SSL-context strategy, and returns None only after
\* both; a call that finds a file, whoever wrote it and however much of it,
\* returns its path without an attempt, and so does every call after it
C23_ObservedLeftoverReturned ==
  BetweenDownloads =>
    /\ \A k \in DOMAIN calls :
         /\ ~calls[k].found => AttemptsInOrder(calls[k].attempts)
         /\ calls[k].found =>
              calls[k].returned = "file_path" /\ calls[k].attempts = <<>>
         /\ calls[k].returned = "None" => calls[k].attempts = strategies
    /\ \A k \in 1..(Len(calls) - 1) :
         (calls[k].found \/ calls[k].returned = "file_path")
           => calls[k + 1].found
    /\ (\E k \in DOMAIN calls : calls[k].found) => file.exists

\* a failed call whose standard strategy broke off partway through writing,
\* followed by a call that returned the path of the partial file
C23_LeftoverReached ==
  /\ BetweenDownloads
  /\ Len(calls) >= 2
  /\ calls[1].returned = "None"
  /\ calls[2].returned = "file_path" /\ calls[2].found
  /\ file.writer = 1 /\ file.size > 0 /\ ~file.whole

====
